---------------------------- MODULE Spec2Model ----------------------------
(***************************************************************************)
(* Cool-lex generation of the k-combinations of n elements                 *)
(* (src/src/linked_list.rs), driven the way src/src/lib.rs drives it:      *)
(* combinations(n, k) is called, the outer iterator is pulled, and every   *)
(* index view it returns is consumed to its end before the next pull.      *)
(*                                                                         *)
(* The heap of leaked Node boxes is a pair of sequences: node j (1..n, in  *)
(* allocation order) has successor next[j] and flag val[j]; the dangling   *)
(* PAST_END pointer is 0.                                                  *)
(***************************************************************************)
EXTENDS Integers, Sequences, FiniteSets, TLC

\* Largest n and k the caller passes.
MaxN == 5
\* How many times the caller pulls again after the end of the sequence.
MaxExtraPulls == 2

\* const PAST_END: NonNull<Node> = NonNull::dangling()
PAST_END == 0

VARIABLES
    n, k,        \* the arguments of combinations(n, k)
    b, x,        \* Algorithm.b (head), Algorithm.x (pivot)
    next, val,   \* Node.next and Node.val of every allocated node
    iter_next,   \* Combinations.iter_next: which function serves next()
    curr, i,     \* SelectedIndicesIterator.curr, .i of the view being read
    pc,          \* where the caller is
    hits, num_comb, num_elem,   \* the caller's tallies (test_linked_list)
    comb,        \* indices the current view has yielded so far, in order
    produced,    \* the completed combinations, in order of production
    advances,    \* number of next_combination calls made so far
    extra        \* pulls made after the end of the sequence

vars == <<n, k, b, x, next, val, iter_next, curr, i, pc,
          hits, num_comb, num_elem, comb, produced, advances, extra>>

-----------------------------------------------------------------------------
(* Algorithm *)

\* Algorithm::new with the pivot left on the first node (x not moved along
\* while the selected nodes are allocated).
Algorithm_new_pivot_first(s, t) ==
    [b    |-> 1,
     x    |-> 1,
     next |-> [j \in 1..(s + t) |-> IF j = s + t THEN PAST_END ELSE j + 1],
     val  |-> [j \in 1..(s + t) |-> j <= t]]

\* Algorithm::new allocating one selected node too many (for _ in 0..t).
Algorithm_new_extra_one(s, t) ==
    [b    |-> 1,
     x    |-> t + 1,
     next |-> [j \in 1..(s + t + 1) |->
                  IF j = s + t + 1 THEN PAST_END ELSE j + 1],
     val  |-> [j \in 1..(s + t + 1) |-> j <= t + 1]]

\* Algorithm::new(s, t): t nodes with val = true, then s nodes with
\* val = false, each linked to the one allocated after it; the last node
\* keeps the PAST_END its constructor gave it.  b is the first node, x the
\* last node with val = true.
Algorithm_new(s, t) ==
    [b    |-> 1,
     x    |-> t,
     next |-> [j \in 1..(s + t) |-> IF j = s + t THEN PAST_END ELSE j + 1],
     val  |-> [j \in 1..(s + t) |-> j <= t]]

\* The assertion Algorithm::new(s, t) opens with: assert!(t > 0).
Algorithm_new_assert(s, t) == t > 0

\* Algorithm::has_more
has_more(a) == a.next[a.x] # PAST_END

\* next_combination that never reassigns the pivot.
next_combination_stale_pivot(a, vl) ==
    LET y  == a.next[a.x]
        n1 == [a.next EXCEPT ![a.x] = a.next[y]]
        n2 == [n1 EXCEPT ![y] = a.b]
    IN  [b |-> y, x |-> a.x, next |-> n2]

\* next_combination that tests the new head for being selected.
next_combination_head_selected(a, vl) ==
    LET y  == a.next[a.x]
        n1 == [a.next EXCEPT ![a.x] = a.next[y]]
        n2 == [n1 EXCEPT ![y] = a.b]
    IN  [b |-> y, x |-> IF vl[y] /\ vl[n2[y]] THEN n2[y] ELSE a.x,
         next |-> n2]

\* next_combination that moves the pivot to the new head itself.
next_combination_pivot_on_head(a, vl) ==
    LET y  == a.next[a.x]
        n1 == [a.next EXCEPT ![a.x] = a.next[y]]
        n2 == [n1 EXCEPT ![y] = a.b]
    IN  [b |-> y, x |-> IF ~vl[y] /\ vl[n2[y]] THEN y ELSE a.x, next |-> n2]

\* next_combination that does not link y to the old head.
next_combination_head_unlinked(a, vl) ==
    LET y  == a.next[a.x]
        n1 == [a.next EXCEPT ![a.x] = a.next[y]]
    IN  [b |-> y, x |-> IF ~vl[y] /\ vl[a.b] THEN a.b ELSE a.x, next |-> n1]

\* Algorithm::next_combination, on the generator a = [b, x, next] with
\* the flags vl.
next_combination(a, vl) ==
    LET y  == a.next[a.x]
        n1 == [a.next EXCEPT ![a.x] = a.next[y]]
        n2 == [n1 EXCEPT ![y] = a.b]
        b2 == y
    IN  [b    |-> b2,
         x    |-> IF ~vl[b2] /\ vl[n2[b2]] THEN n2[b2] ELSE a.x,
         next |-> n2]

\* The generator held in the variables.
Alg == [b |-> b, x |-> x, next |-> next]

\* The nodes met walking from c along nx until PAST_END, at most fuel of
\* them (the walk of Display::fmt and of the index view).
RECURSIVE Walk(_, _, _)
Walk(nx, c, fuel) ==
    IF c = PAST_END \/ fuel = 0 THEN <<>>
    ELSE <<c>> \o Walk(nx, nx[c], fuel - 1)

\* The flags in traversal order from head.
Bits(a, vl) ==
    LET w == Walk(a.next, a.b, Len(a.next) + 1)
    IN  [j \in 1..Len(w) |-> vl[w[j]]]

\* Display::fmt that tests for PAST_END before it writes a node's character.
RECURSIVE Display_fmt_drops_last(_, _, _)
Display_fmt_drops_last(nx, vl, c) ==
    IF nx[c] = PAST_END THEN <<>>
    ELSE <<IF vl[c] THEN "1" ELSE "0">>
             \o Display_fmt_drops_last(nx, vl, nx[c])

\* Display::fmt of the generator whose head is c: the characters written,
\* in order ('1' for a selected node, '0' otherwise, then on to the
\* successor until that is PAST_END).  The formatter takes every character
\* (a String does).
RECURSIVE Display_fmt(_, _, _)
Display_fmt(nx, vl, c) ==
    LET val_to_display == IF vl[c] THEN "1" ELSE "0"
    IN  IF nx[c] = PAST_END THEN <<val_to_display>>
        ELSE <<val_to_display>> \o Display_fmt(nx, vl, nx[c])

-----------------------------------------------------------------------------
(* SelectedIndicesIterator *)

\* SelectedIndicesIterator::next that counts the position before it
\* captures the index to yield.
RECURSIVE SelectedIndices_next_late_index(_, _, _, _)
SelectedIndices_next_late_index(nx, vl, c, ix) ==
    IF c = PAST_END THEN [r |-> -1, curr |-> c, i |-> ix]
    ELSE IF vl[c] THEN [r |-> ix + 1, curr |-> nx[c], i |-> ix + 1]
    ELSE SelectedIndices_next_late_index(nx, vl, nx[c], ix + 1)

\* SelectedIndicesIterator::next that does not count the unselected
\* markers it passes.
RECURSIVE SelectedIndices_next_uncounted(_, _, _, _)
SelectedIndices_next_uncounted(nx, vl, c, ix) ==
    IF c = PAST_END THEN [r |-> -1, curr |-> c, i |-> ix]
    ELSE IF vl[c] THEN [r |-> ix, curr |-> nx[c], i |-> ix + 1]
    ELSE SelectedIndices_next_uncounted(nx, vl, nx[c], ix)

\* SelectedIndicesIterator::next on the view [curr, i]: the result r is
\* the index yielded, or -1 for None, with the view's fields afterwards.
RECURSIVE SelectedIndices_next(_, _, _, _)
SelectedIndices_next(nx, vl, c, ix) ==
    IF c = PAST_END THEN [r |-> -1, curr |-> c, i |-> ix]
    ELSE IF vl[c] THEN [r |-> ix, curr |-> nx[c], i |-> ix + 1]
    ELSE SelectedIndices_next(nx, vl, nx[c], ix + 1)

-----------------------------------------------------------------------------
(* Combinations: the iterator over the combinations *)

\* SelectedIndicesIterator::new(alg)
SelectedIndices_new(a) == [curr |-> a.b, i |-> 0]

\* Combinations::iter_first_combination: Some(view of the generator as it
\* is).  The record is what the call returns (some, view) and what it
\* leaves in the Combinations (alg, iter_next); adv counts the
\* next_combination calls it made.
iter_first_combination(a, vl, inx) ==
    [some |-> TRUE, alg |-> a, view |-> SelectedIndices_new(a),
     iter_next |-> inx, adv |-> 0]

\* iter_next_combination that, at the end, hands next() back to
\* iter_entry.
iter_next_combination_restart(a, vl, inx) ==
    IF has_more(a)
    THEN LET a2 == next_combination(a, vl)
         IN  [some |-> TRUE, alg |-> a2, view |-> SelectedIndices_new(a2),
              iter_next |-> inx, adv |-> 1]
    ELSE [some |-> FALSE, alg |-> a, view |-> [curr |-> curr, i |-> i],
          iter_next |-> "iter_entry", adv |-> 0]

\* iter_next_combination that does not ask has_more(): at the end it calls
\* next_combination all the same (shown here with the call returning and
\* the generator as it was).
iter_next_combination_unguarded(a, vl, inx) ==
    LET a2 == IF a.next[a.x] # PAST_END THEN next_combination(a, vl) ELSE a
    IN  [some |-> TRUE, alg |-> a2, view |-> SelectedIndices_new(a2),
         iter_next |-> inx, adv |-> 1]

\* Combinations::iter_next_combination
iter_next_combination(a, vl, inx) ==
    IF has_more(a)
    THEN LET a2 == next_combination(a, vl)
         IN  [some |-> TRUE, alg |-> a2, view |-> SelectedIndices_new(a2),
              iter_next |-> inx, adv |-> 1]
    ELSE [some |-> FALSE, alg |-> a, view |-> [curr |-> curr, i |-> i],
          iter_next |-> inx, adv |-> 0]

\* iter_entry that answers with iter_next_combination: the generator is
\* advanced before its first view is returned.
iter_entry_advance_first(a, vl, inx) ==
    iter_next_combination(a, vl, "iter_next_combination")

\* Combinations::iter_entry: makes iter_next_combination the function
\* behind next(), then answers with iter_first_combination.
iter_entry(a, vl, inx) ==
    iter_first_combination(a, vl, "iter_next_combination")

-----------------------------------------------------------------------------
(* The caller: test_linked_list, then further pulls after the end *)

Init ==
    /\ n \in 0..MaxN
    /\ k \in 0..MaxN
    /\ b = PAST_END
    /\ x = PAST_END
    /\ next = <<>>
    /\ val = <<>>
    /\ iter_next = "none"
    /\ curr = PAST_END
    /\ i = 0
    /\ pc = "call"
    /\ hits = [j \in 0..(n - 1) |-> 0]
    /\ num_comb = 0
    /\ num_elem = 0
    /\ comb = <<>>
    /\ produced = <<>>
    /\ advances = 0
    /\ extra = 0

\* combinations whose assertion is n > k instead of n >= k.
Combinations_strict_assert ==
    /\ pc = "call"
    /\ IF ~(n > k)
       THEN /\ pc' = "panicked"
            /\ UNCHANGED <<b, x, next, val, iter_next>>
       ELSE IF k # 0
       THEN LET a == Algorithm_new(n - k, k)
            IN  /\ b' = a.b
                /\ x' = a.x
                /\ next' = a.next
                /\ val' = a.val
                /\ iter_next' = "iter_entry"
                /\ pc' = "pull"
       ELSE /\ iter_next' = "empty"
            /\ pc' = "pull"
            /\ UNCHANGED <<b, x, next, val>>
    /\ UNCHANGED <<n, k, curr, i, hits, num_comb, num_elem, comb, produced,
                   advances, extra>>

\* combinations that builds the generator without testing k # 0.
Combinations_no_zero_test ==
    /\ pc = "call"
    /\ IF ~(n >= k)
       THEN /\ pc' = "panicked"
            /\ UNCHANGED <<b, x, next, val, iter_next>>
       ELSE IF ~Algorithm_new_assert(n - k, k)
       THEN /\ pc' = "panicked"
            /\ UNCHANGED <<b, x, next, val, iter_next>>
       ELSE LET a == Algorithm_new(n - k, k)
            IN  /\ b' = a.b
                /\ x' = a.x
                /\ next' = a.next
                /\ val' = a.val
                /\ iter_next' = "iter_entry"
                /\ pc' = "pull"
    /\ UNCHANGED <<n, k, curr, i, hits, num_comb, num_elem, comb, produced,
                   advances, extra>>

\* CoollexLinkedList::combinations(n, k).  A panic of the call, from its
\* own assertion or from Algorithm::new's, leaves pc = "panicked".
Combinations ==
    /\ pc = "call"
    /\ IF ~(n >= k)
       THEN /\ pc' = "panicked"
            /\ UNCHANGED <<b, x, next, val, iter_next>>
       ELSE IF k # 0
       THEN IF ~Algorithm_new_assert(n - k, k)
            THEN /\ pc' = "panicked"
                 /\ UNCHANGED <<b, x, next, val, iter_next>>
            ELSE LET a == Algorithm_new(n - k, k)
                 IN  /\ b' = a.b
                     /\ x' = a.x
                     /\ next' = a.next
                     /\ val' = a.val
                     /\ iter_next' = "iter_entry"
                     /\ pc' = "pull"
       ELSE /\ iter_next' = "empty"
            /\ pc' = "pull"
            /\ UNCHANGED <<b, x, next, val>>
    /\ UNCHANGED <<n, k, curr, i, hits, num_comb, num_elem, comb, produced,
                   advances, extra>>

\* Iterator::next of the boxed iterator: std::iter::Empty answers None;
\* Combinations calls the function iter_next holds.
Iterator_next(a, vl, inx) ==
    IF inx = "empty"
    THEN [some |-> FALSE, alg |-> a, view |-> [curr |-> curr, i |-> i],
          iter_next |-> inx, adv |-> 0]
    ELSE IF inx = "iter_entry" THEN iter_entry(a, vl, inx)
    ELSE iter_next_combination(a, vl, inx)

\* One pull on the value combinations(n, k) returned: the loop head of
\* "for comb in combs", and any pull the caller makes after the end.
Pull ==
    /\ \/ pc = "pull"
       \/ pc = "done" /\ extra < MaxExtraPulls
    /\ LET r == Iterator_next(Alg, val, iter_next)
       IN  /\ b' = r.alg.b
           /\ x' = r.alg.x
           /\ next' = r.alg.next
           /\ iter_next' = r.iter_next
           /\ curr' = r.view.curr
           /\ i' = r.view.i
           /\ advances' = advances + r.adv
           /\ IF r.some
              THEN /\ pc' = "view"
                   /\ num_elem' = 0
                   /\ comb' = <<>>
              ELSE /\ pc' = "done"
                   /\ UNCHANGED <<num_elem, comb>>
    /\ extra' = IF pc = "done" THEN extra + 1 ELSE extra
    /\ UNCHANGED <<n, k, val, hits, num_comb, produced>>

\* One next() on the index view: the loop head and body of "for i in comb",
\* and, when the view ends, the rest of the outer loop's body.
ViewNext ==
    /\ pc = "view"
    /\ LET r == SelectedIndices_next(next, val, curr, i)
       IN  /\ curr' = r.curr
           /\ i' = r.i
           /\ IF r.r # -1
              THEN /\ IF r.r \in DOMAIN hits
                      THEN /\ hits' = [hits EXCEPT ![r.r] = @ + 1]
                           /\ num_elem' = num_elem + 1
                           /\ comb' = Append(comb, r.r)
                           /\ pc' = "view"
                      ELSE /\ pc' = "panicked"
                           /\ UNCHANGED <<hits, num_elem, comb>>
                   /\ UNCHANGED <<num_comb, produced>>
              ELSE /\ IF k = num_elem
                      THEN /\ num_comb' = num_comb + 1
                           /\ produced' = Append(produced, comb)
                           /\ pc' = "pull"
                      ELSE /\ pc' = "panicked"
                           /\ UNCHANGED <<num_comb, produced>>
                   /\ UNCHANGED <<hits, num_elem, comb>>
    /\ UNCHANGED <<n, k, b, x, next, val, iter_next, advances, extra>>

Next == Combinations \/ Pull \/ ViewNext

Spec == Init /\ [][Next]_vars

\* A caller that keeps pulling: no step that can be taken is put off forever.
FairSpec == Spec /\ WF_vars(Next)

-----------------------------------------------------------------------------
(* The caller that uses Algorithm directly (example_direct_use) *)

\* Algorithm::new(n - k, k) called by the caller itself.  A panic of this
\* call leaves pc = "new_panicked".
DirectNew ==
    /\ pc = "call"
    /\ n >= k
    /\ IF ~Algorithm_new_assert(n - k, k)
       THEN /\ pc' = "new_panicked"
            /\ UNCHANGED <<b, x, next, val>>
       ELSE LET a == Algorithm_new(n - k, k)
            IN  /\ b' = a.b
                /\ x' = a.x
                /\ next' = a.next
                /\ val' = a.val
                /\ pc' = "direct"
    /\ UNCHANGED <<n, k, iter_next, curr, i, hits, num_comb, num_elem, comb,
                   produced, advances, extra>>

\* One turn of the loop of example_direct_use: leave it when has_more() is
\* false, call next_combination otherwise.
DirectStep ==
    /\ pc = "direct"
    /\ IF ~has_more(Alg)
       THEN /\ pc' = "direct_done"
            /\ UNCHANGED <<b, x, next, advances>>
       ELSE LET a == next_combination(Alg, val)
            IN  /\ b' = a.b
                /\ x' = a.x
                /\ next' = a.next
                /\ advances' = advances + 1
                /\ pc' = "direct"
    /\ UNCHANGED <<n, k, val, iter_next, curr, i, hits, num_comb, num_elem,
                   comb, produced, extra>>

\* next_combination called although has_more() is false.  y is PAST_END,
\* a dangling pointer, and the function reads and writes through it with
\* no check: undefined behaviour.  Either the access faults and the process
\* is killed, or it does not (address 8 is mapped, or the build assumed the
\* pointer valid) and the call returns: the read of y's successor gave some
\* pointer v, which is now the pivot's successor, head is PAST_END, and the
\* pivot test read some flag hv through head.
DirectMisuse ==
    /\ pc = "direct_done"
    /\ \E faults \in BOOLEAN, v \in 0..Len(next), hv \in BOOLEAN :
           IF faults
           THEN /\ pc' = "aborted"
                /\ UNCHANGED <<b, x, next, advances>>
           ELSE /\ next' = [next EXCEPT ![x] = v]
                /\ b' = PAST_END
                /\ x' = IF ~hv /\ val[b] THEN b ELSE x
                /\ advances' = advances + 1
                /\ pc' = "misused"
    /\ UNCHANGED <<n, k, val, iter_next, curr, i, hits, num_comb, num_elem,
                   comb, produced, extra>>

ApiNext == Next \/ DirectNew \/ DirectStep \/ DirectMisuse

\* Both ways of using the library.
ApiSpec == Init /\ [][ApiNext]_vars

-----------------------------------------------------------------------------
(* Vocabulary of the properties *)

\* The binomial coefficient C(m, j), by Pascal's rule.
RECURSIVE Choose(_, _)
Choose(m, j) ==
    IF j < 0 \/ j > m THEN 0
    ELSE IF j = 0 \/ j = m THEN 1
    ELSE Choose(m - 1, j - 1) + Choose(m - 1, j)

\* The set of the elements of a sequence.
ToSet(sq) == {sq[j] : j \in 1..Len(sq)}

\* The j-element subsets of {0, ..., m-1}.
KSubsets(m, j) == {S \in SUBSET (0..(m - 1)) : Cardinality(S) = j}

\* A generator has been built and not been lost to a panic.
HasAlg == iter_next \in {"iter_entry", "iter_next_combination"}

\* The positions, counted from head, whose marker is selected.
SelectedPositions ==
    LET bits == Bits(Alg, val)
    IN  {j - 1 : j \in {m \in 1..Len(bits) : bits[m]}}

\* The cool-lex successor of a bitstring, as Ruskey and Williams define it:
\* the shortest prefix ending in 010 or 011 (the whole string when there is
\* none) is rotated one position to the right.
CoolLexPrefix(bits) ==
    LET ends == {p \in 3..Len(bits) : ~bits[p - 2] /\ bits[p - 1]}
    IN  IF ends = {} THEN Len(bits)
        ELSE CHOOSE p \in ends : \A q \in ends : p <= q
CoolLexSucc(bits) ==
    LET p == CoolLexPrefix(bits)
    IN  [j \in 1..Len(bits) |->
            IF j = 1 THEN bits[p]
            ELSE IF j <= p THEN bits[j - 1]
            ELSE bits[j]]

-----------------------------------------------------------------------------
(* The properties *)

\* C1: for n >= k >= 1, the combinations produced until the end is
\* signalled are the k-element subsets of {0, ..., n-1}, each exactly once:
\* no index set is produced twice, and at the end none is missing.
C1_AllSubsetsOnce ==
    (n >= k /\ k >= 1) =>
        /\ \A p, q \in 1..Len(produced) :
               p # q => ToSet(produced[p]) # ToSet(produced[q])
        /\ \A p \in 1..Len(produced) : ToSet(produced[p]) \in KSubsets(n, k)
        /\ pc = "done" =>
               {ToSet(produced[p]) : p \in 1..Len(produced)} = KSubsets(n, k)
C1_Witness ==
    /\ pc = "done" /\ n = 5 /\ k = 2
    /\ Len(produced) = 10
    /\ {0, 1} \in {ToSet(produced[p]) : p \in 1..Len(produced)}
    /\ {3, 4} \in {ToSet(produced[p]) : p \in 1..Len(produced)}

\* C2: every next_combination (made only where has_more() is true) turns
\* the bitstring read from head into its cool-lex successor: the shortest
\* prefix ending in 010 or 011, or the whole string, rotated right by one.
C2_CoolLexOrder ==
    [][advances' # advances =>
           Bits(Alg', val') = CoolLexSucc(Bits(Alg, val))]_vars
C2_Witness ==
    /\ advances = 3
    /\ Bits(Alg, val) = <<FALSE, TRUE, FALSE, TRUE, FALSE>>

\* C3: when the end is signalled, the number of combinations produced is
\* C(n, k) for k >= 1 and 0 for k = 0.
C3_Cardinality ==
    (pc = "done" /\ n >= k) =>
        num_comb = IF k >= 1 THEN Choose(n, k) ELSE 0
C3_Witness ==
    pc = "done" /\ n = 5 /\ k = 3 /\ num_comb = 10 /\ Len(produced) = 10

\* The symmetric difference of two sets.
SymDiff(S, T) == (S \ T) \cup (T \ S)

\* C4 as stated: any two consecutive combinations, as index sets, differ
\* by exactly one element put in and one taken out (symmetric difference
\* of size exactly 2).
C4_SymDiffExactlyTwo ==
    \A p \in 1..(Len(produced) - 1) :
        Cardinality(SymDiff(ToSet(produced[p]), ToSet(produced[p + 1]))) = 2

\* C4, amended: any two consecutive combinations, as index sets, differ by
\* one or by two elements exchanged (symmetric difference of size 2 or 4).
C4_SymDiffTwoOrFour ==
    \A p \in 1..(Len(produced) - 1) :
        Cardinality(SymDiff(ToSet(produced[p]), ToSet(produced[p + 1])))
            \in {2, 4}
C4_Witness ==
    /\ n = 5 /\ k = 2 /\ Len(produced) = 4
    /\ produced[2] = <<1, 2>>
    /\ produced[3] = <<0, 2>>
    /\ produced[4] = <<1, 3>>

\* C5: in every state of the generator exactly k of the markers reachable
\* from head are selected, and every index view, read to its end, has
\* yielded exactly k indices.
C5_FixedSize ==
    (n >= k /\ HasAlg) =>
        /\ Cardinality(SelectedPositions) = k
        /\ Cardinality({j \in 1..Len(val) : val[j]}) = k
        /\ Len(comb) = num_elem
        /\ (pc = "view" /\ SelectedIndices_next(next, val, curr, i).r = -1)
               => num_elem = k
        /\ pc # "panicked"
        /\ \A p \in 1..Len(produced) : Len(produced[p]) = k
C5_Witness ==
    /\ n = 5 /\ k = 3 /\ advances = 4
    /\ pc = "view" /\ curr = PAST_END /\ num_elem = 3

\* C6: for n >= k >= 1, when the end is signalled every position 0..n-1
\* has been yielded in exactly C(n-1, k-1) of the combinations.
C6_UniformCoverage ==
    (pc = "done" /\ n >= k /\ k >= 1) =>
        /\ DOMAIN hits = 0..(n - 1)
        /\ \A j \in 0..(n - 1) : hits[j] = Choose(n - 1, k - 1)
        /\ \A j \in 0..(n - 1) :
               Cardinality({p \in 1..Len(produced) : j \in ToSet(produced[p])})
                   = Choose(n - 1, k - 1)
C6_Witness ==
    /\ pc = "done" /\ n = 5 /\ k = 3
    /\ \A j \in 0..4 : hits[j] = 6

\* C7: an index view read before the next advance yields its indices in
\* strictly increasing order, all of them in [0, n), and yields i exactly
\* when the marker at position i from head is selected.
C7_IndexView ==
    (n >= k /\ HasAlg /\ pc \in {"view", "pull", "done"}) =>
        /\ \A p, q \in 1..Len(comb) : p < q => comb[p] < comb[q]
        /\ \A p \in 1..Len(comb) : comb[p] \in 0..(n - 1)
        /\ pc = "view" =>
               ToSet(comb) = {j \in SelectedPositions : j < i}
        /\ (pc \in {"pull", "done"} /\ num_comb >= 1) =>
               /\ produced[Len(produced)] = comb
               /\ ToSet(comb) = SelectedPositions
C7_Witness ==
    /\ n = 5 /\ k = 2 /\ pc = "pull"
    /\ Bits(Alg, val) = <<FALSE, TRUE, FALSE, FALSE, TRUE>>
    /\ comb = <<1, 4>>

\* The number of pulls that have returned a view so far.
Views == num_comb + (IF pc = "view" THEN 1 ELSE 0)

\* C8: for n >= k >= 1, the first pull returns the view of the generator
\* as constructed, with no next_combination made, and the combination it
\* yields is 0, 1, ..., k-1; every later pull that returns a view has made
\* exactly one next_combination first.
C8_FirstThenAdvance ==
    (n >= k /\ k >= 1 /\ HasAlg) =>
        /\ iter_next = "iter_entry" => (Views = 0 /\ advances = 0)
        /\ iter_next = "iter_next_combination" =>
               (Views >= 1 /\ advances = Views - 1)
        /\ Views = 1 =>
               /\ Alg = [b |-> 1, x |-> k,
                         next |-> [j \in 1..n |-> IF j = n THEN PAST_END
                                                  ELSE j + 1]]
               /\ SelectedPositions = 0..(k - 1)
        /\ Len(produced) >= 1 => produced[1] = [j \in 1..k |-> j - 1]
C8_Witness ==
    /\ n = 5 /\ k = 3 /\ Views = 3 /\ advances = 2 /\ pc = "view"
    /\ produced[1] = <<0, 1, 2>>

\* C9: once a pull has signalled the end, every later pull signals the end
\* too, and none of them changes head, pivot or a successor link.
C9_ExhaustionPermanent ==
    [][pc = "done" =>
           (pc' = "done" /\ b' = b /\ x' = x /\ next' = next /\ val' = val
            /\ num_comb' = num_comb)]_vars
C9_Witness ==
    pc = "done" /\ extra = 2 /\ n = 5 /\ k = 2 /\ advances = 9

\* C10: for n >= k >= 0 a caller that keeps pulling is eventually told the
\* end, after exactly C(n, k) - 1 next_combination calls (none when k = 0,
\* where no generator is built); with a generator, has_more() is false
\* from then on.
C10_Termination ==
    (n >= k) =>
        /\ <>(pc = "done")
        /\ [](pc = "done" =>
                  /\ advances = Choose(n, k) - 1
                  /\ HasAlg => ~has_more(Alg))
C10_Witness ==
    pc = "done" /\ n = 5 /\ k = 3 /\ advances = 9 /\ extra = 0

\* C11: combinations(n, k) with k > n panics, returning no sequence and
\* building no generator; with n >= k it does not panic (nor does anything
\* the caller then does with the sequence).
C11_PanicIffKGreaterN ==
    pc # "call" =>
        /\ k > n => /\ pc = "panicked"
                    /\ iter_next = "none"
                    /\ next = <<>> /\ val = <<>>
                    /\ b = PAST_END /\ x = PAST_END
                    /\ produced = <<>> /\ num_comb = 0 /\ advances = 0
        /\ n >= k => /\ pc # "panicked"
                     /\ iter_next \in {"empty", "iter_entry",
                                       "iter_next_combination"}
C11_Witness ==
    pc = "panicked" /\ n = 2 /\ k = 3 /\ iter_next = "none"

\* The places of a caller that uses Algorithm directly.
DirectPcs == {"new_panicked", "direct", "direct_done", "aborted", "misused"}

\* C12: a next_combination made when has_more() is false ends in abnormal
\* termination at once: it never returns, and so never leaves a changed
\* generator behind.
C12_MisuseAborts ==
    pc \in {"aborted", "misused"} =>
        /\ pc = "aborted"
        /\ b # PAST_END
        /\ advances = Choose(n, k) - 1

\* C13: Algorithm::new(s, t) panics when t = 0 and otherwise builds a
\* generator of s + t markers (here s = n - k, t = k); combinations(n, k)
\* with n >= k never runs into that panic, k = 0 being answered with the
\* empty sequence and no generator.
C13_NewPanicsIffNoOnes ==
    /\ pc \in DirectPcs =>
           /\ n >= k
           /\ (k = 0) <=> (pc = "new_panicked")
           /\ k = 0 => (next = <<>> /\ val = <<>>)
           /\ k > 0 => /\ Len(next) = (n - k) + k
                       /\ Len(val) = (n - k) + k
                       /\ Cardinality({j \in 1..Len(val) : val[j]}) = k
    /\ (pc \notin DirectPcs /\ pc # "call" /\ n >= k) =>
           /\ pc # "panicked"
           /\ k = 0 => (iter_next = "empty" /\ next = <<>> /\ val = <<>>)
           /\ k > 0 => (HasAlg /\ Len(next) = n)
C13_Witness ==
    pc = "new_panicked" /\ n = 3 /\ k = 0 /\ next = <<>>

\* The marker p successor links away from c.
RECURSIVE Nth(_, _, _)
Nth(nx, c, p) == IF p = 0 THEN c ELSE Nth(nx, nx[c], p - 1)

\* C14: in every state of the generator the text rendered is n characters,
\* each '0' or '1', character p telling whether the marker at position p
\* from head is selected; for the generator as constructed it is k ones
\* followed by n - k zeros.
C14_Rendering ==
    (n >= k /\ HasAlg) =>
        LET text == Display_fmt(next, val, b)
        IN  /\ Len(text) = n
            /\ \A p \in 1..Len(text) : text[p] \in {"0", "1"}
            /\ \A p \in 0..(n - 1) :
                   (text[p + 1] = "1") <=> val[Nth(next, b, p)]
            /\ advances = 0 =>
                   text = [p \in 1..n |-> IF p <= k THEN "1" ELSE "0"]
C14_Witness ==
    /\ n = 5 /\ k = 2 /\ advances = 0 /\ HasAlg
    /\ Display_fmt(next, val, b) = <<"1", "1", "0", "0", "0">>

\* The markers in traversal order from head.
Chain == Walk(next, b, Len(next) + 1)

\* The marker at position p of the chain is selected and the one after it,
\* if there is one, is not.
OneThenZero(p) ==
    /\ val[Chain[p]]
    /\ p < Len(Chain) => ~val[Chain[p + 1]]

\* The marker at position p of the chain is selected and the one before it
\* is a marker that is not.
ZeroThenOne(p) ==
    /\ val[Chain[p]]
    /\ p > 1
    /\ ~val[Chain[p - 1]]

\* C15 as stated: in every state of the generator the pivot is the first
\* marker from head that is selected and whose successor is not selected.
C15_PivotFirstOneThenZero ==
    (n >= k /\ HasAlg) =>
        \E p \in 1..Len(Chain) :
            /\ Chain[p] = x
            /\ OneThenZero(p)
            /\ \A q \in 1..(p - 1) : ~OneThenZero(q)

\* C15, amended: in every state of the generator the pivot is selected and
\* is the first marker from head that is selected and whose predecessor is
\* unselected; in the generator as constructed, where no marker is such,
\* it is the last selected marker.  An advance that leaves the pivot
\* unchanged leaves it selected (its successor may be selected too).
C15_PivotFirstZeroThenOne ==
    (n >= k /\ HasAlg) =>
        \E p \in 1..Len(Chain) :
            /\ Chain[p] = x
            /\ val[x]
            /\ IF advances = 0
               THEN /\ p = k
                    /\ \A q \in 1..Len(Chain) : ~ZeroThenOne(q)
               ELSE /\ ZeroThenOne(p)
                    /\ \A q \in 1..(p - 1) : ~ZeroThenOne(q)
C15_Witness ==
    /\ n = 4 /\ k = 3 /\ advances = 2
    /\ Bits(Alg, val) = <<TRUE, FALSE, TRUE, TRUE>>
    /\ Chain[3] = x

\* C16: in every state of the generator the pivot is a marker of the chain
\* from head, never the terminator, and is selected.
C16_PivotRealAndSelected ==
    (n >= k /\ HasAlg) =>
        /\ x # PAST_END
        /\ x \in DOMAIN next
        /\ x \in ToSet(Chain)
        /\ val[x]
C16_Witness ==
    /\ n = 5 /\ k = 2 /\ advances = 1 /\ HasAlg
    /\ x = 1 /\ Chain[2] = x /\ val[x]

\* C17: in every state of the generator the successor links lead from head
\* through each of the n markers exactly once and then to the terminator:
\* no cycle, no marker lost, none gained.
C17_ChainIntegrity ==
    (n >= k /\ HasAlg) =>
        /\ Len(next) = n
        /\ Len(val) = n
        /\ b \in 1..n
        /\ Len(Chain) = n
        /\ ToSet(Chain) = 1..n
        /\ \A p, q \in 1..Len(Chain) : p # q => Chain[p] # Chain[q]
        /\ next[Chain[n]] = PAST_END
        /\ Nth(next, b, n) = PAST_END
C17_Witness ==
    /\ n = 5 /\ k = 3 /\ advances = 5 /\ HasAlg
    /\ Len(Chain) = 5 /\ Chain # <<1, 2, 3, 4, 5>>

\* A sequence without the element e.
RECURSIVE Without(_, _)
Without(sq, e) ==
    IF sq = <<>> THEN <<>>
    ELSE IF Head(sq) = e THEN Without(Tail(sq), e)
    ELSE <<Head(sq)>> \o Without(Tail(sq), e)

\* C18: a next_combination moves one marker, y = the pivot's successor, to
\* the head.  It rewrites the pivot's successor (to y's old one) and y's
\* successor (to the old head) and no other link, makes y the head, moves
\* the pivot only when the new head is unselected and its successor is
\* selected (to that successor), changes no flag, and leaves the other
\* markers in their order.
C18_Frame ==
    [][advances' # advances =>
           LET y == next[x]
           IN  /\ y \in 1..n
               /\ b' = y
               /\ next'[x] = next[y]
               /\ next'[y] = b
               /\ \A j \in (1..n) \ {x, y} : next'[j] = next[j]
               /\ DOMAIN next' = DOMAIN next
               /\ val' = val
               /\ x' = IF ~val'[b'] /\ val'[next'[b']] THEN next'[b'] ELSE x
               /\ Chain' = <<y>> \o Without(Chain, y)]_vars
C18_Witness ==
    /\ n = 5 /\ k = 2 /\ advances = 3
    /\ Chain = <<4, 2, 3, 1, 5>> /\ x = 2

\* C19: the iterator makes a next_combination only where has_more() is
\* true: the marker it unlinks, the pivot's successor, is a marker of the
\* chain, and the terminator is neither read through nor linked in.
C19_GuardedAdvance ==
    [][advances' # advances =>
           /\ has_more(Alg)
           /\ next[x] # PAST_END
           /\ next[x] \in ToSet(Chain)
           /\ b' = next[x]
           /\ b' # PAST_END]_vars
C19_Witness ==
    /\ n = 5 /\ k = 4 /\ advances = 4 /\ pc = "done" /\ extra = 1
    /\ ~has_more(Alg)

\* C20: for n >= k >= 1, has_more() is false exactly in the state whose
\* selected positions are 0, ..., k-2 and n-1; that is the last
\* combination produced, and for k = n it is the state as constructed.
C20_FinalState ==
    (n >= k /\ k >= 1 /\ HasAlg) =>
        /\ ~has_more(Alg) <=>
               SelectedPositions = (0..(k - 2)) \cup {n - 1}
        /\ pc = "done" =>
               /\ ~has_more(Alg)
               /\ ToSet(produced[Len(produced)]) = (0..(k - 2)) \cup {n - 1}
        /\ (k = n /\ advances = 0) => ~has_more(Alg)
        /\ (Views >= 1 /\ Views < Choose(n, k)) => has_more(Alg)
C20_Witness ==
    /\ n = 5 /\ k = 3 /\ pc = "done" /\ ~has_more(Alg)
    /\ produced[Len(produced)] = <<0, 1, 4>>

=============================================================================
